---- MODULE Spec2Model ----
(***************************************************************************)
(* bin/AbcView/All.h of blurstudio/abcview, as the C preprocessor sees it. *)
(*                                                                         *)
(* All.h is an aggregation header: an include guard, one macro definition, *)
(* and a list of #include directives with one platform conditional.  The   *)
(* model is the preprocessing of one translation unit that includes All.h  *)
(* up to MaxInclusions times, with PLATFORM_DARWIN defined or not by the   *)
(* build and possibly #define'd / #undef'ed by the translation unit        *)
(* between two inclusions.  Each line of the header is one step.           *)
(***************************************************************************)
EXTENDS Integers, Sequences, FiniteSets

VARIABLES
    macros,     \* macro table of the translation unit: name -> replacement
    includes,   \* headers entered from All.h so far, in order
    defines,    \* <<name, value>> of every #define All.h has executed
    text,       \* non-directive lines All.h has passed to the compiler
    condStack,  \* open #if groups of All.h, innermost last
    pc,         \* 0: outside All.h; n > 0: about to read line n of All.h
    nIncl       \* how many times the unit has entered All.h

vars == <<macros, includes, defines, text, condStack, pc, nIncl>>

\* How many times the translation unit includes All.h.
MaxInclusions == 2

----------------------------------------------------------------------------
(* The lines of the header.                                                *)

Blank        == [kind |-> "blank",   arg |-> "", val |-> ""]
Comment      == [kind |-> "comment", arg |-> "", val |-> ""]
Text(t)      == [kind |-> "text",    arg |-> t,  val |-> ""]
Ifndef(m)    == [kind |-> "ifndef",  arg |-> m,  val |-> ""]
Ifdef(m)     == [kind |-> "ifdef",   arg |-> m,  val |-> ""]
Else         == [kind |-> "else",    arg |-> "", val |-> ""]
Endif        == [kind |-> "endif",   arg |-> "", val |-> ""]
Define(m, v) == [kind |-> "define",  arg |-> m,  val |-> v]
Include(h)   == [kind |-> "include", arg |-> h,  val |-> ""]

\* The line of the #endif that closes the platform conditional.
GLBlockEnd == 32

Guard          == "_AbcView_All_h_"
VersionNS      == "ABCVIEW_VERSION_NS"
PlatformDarwin == "PLATFORM_DARWIN"

\* Element n of AllH is line n of All.h.
AllH ==
    << Blank,                                   \*  1
       Ifndef(Guard),                           \*  2
       Define(Guard, ""),                       \*  3
       Blank,                                   \*  4
       Define(VersionNS, "v1"),                 \*  5
       Blank,                                   \*  6
       Include("iostream"),                     \*  7
       Include("algorithm"),                    \*  8
       Include("math.h"),                       \*  9
       Blank,                                   \* 10
       Include("ImathMath.h"),                  \* 11
       Include("ImathVec.h"),                   \* 12
       Include("ImathMatrix.h"),                \* 13
       Include("ImathBox.h"),                   \* 14
       Include("ImathQuat.h"),                  \* 15
       Include("ImathColor.h"),                 \* 16
       Include("ImathFun.h"),                   \* 17
       Include("ImathBoxAlgo.h"),               \* 18
       Blank,                                   \* 19
       Ifdef(PlatformDarwin),                   \* 20
       Blank,                                   \* 21
       Include("OpenGL/gl.h"),                  \* 22
       Include("OpenGL/glu.h"),                 \* 23
       Include("OpenGL/glext.h"),               \* 24
       Include("OpenGL/OpenGL.h"),              \* 25
       Include("GLUT/glut.h"),                  \* 26
       Blank,                                   \* 27
       Else,                                    \* 28
       Comment,                                 \* 29
       Include("GL/glew.h"),                    \* 30
       Blank,                                   \* 31
       Endif,                                   \* 32
       Blank,                                   \* 33
       Include("QtWidgets/QAction"),            \* 34
       Include("QtWidgets/QAbstractItemView"),  \* 35
       Include("QtWidgets/QDockWidget"),        \* 36
       Include("QtWidgets/QFileDialog"),        \* 37
       Include("QtWidgets/QLabel"),             \* 38
       Include("QtWidgets/QMenu"),              \* 39
       Include("QtWidgets/QMenuBar"),           \* 40
       Include("QtWidgets/QMainWindow"),        \* 41
       Include("QtWidgets/QStyleFactory"),      \* 42
       Include("QtWidgets/QToolBar"),           \* 43
       Include("QtWidgets/QTreeWidget"),        \* 44
       Include("QtWidgets/QTreeWidgetItem"),    \* 45
       Include("QtWidgets/QWidget"),            \* 46
       Include("QIODevice"),                    \* 47
       Include("QFile"),                        \* 48
       Include("QResizeEvent"),                 \* 49
       Include("QWheelEvent"),                  \* 50
       Include("QKeyEvent"),                    \* 51
       Include("QMouseEvent"),                  \* 52
       Include("QPoint"),                       \* 53
       Include("QtOpenGL/QGLWidget"),           \* 54
       Include("QtOpenGL/QGLFormat"),           \* 55
       Include("AbcOpenGL/GLCamera.h"),         \* 56
       Include("AbcOpenGL/SceneWrapper.h"),     \* 57
       Blank,                                   \* 58
       Endif >>                                 \* 59

----------------------------------------------------------------------------
(* The header families All.h names.                                        *)

StdHeaders == {"iostream", "algorithm", "math.h"}

ImathHeaders ==
    {"ImathMath.h", "ImathVec.h", "ImathMatrix.h", "ImathBox.h",
     "ImathQuat.h", "ImathColor.h", "ImathFun.h", "ImathBoxAlgo.h"}

NativeGLHeaders ==
    {"OpenGL/gl.h", "OpenGL/glu.h", "OpenGL/glext.h", "OpenGL/OpenGL.h",
     "GLUT/glut.h"}

GlewHeaders == {"GL/glew.h"}

QtHeaders ==
    {"QtWidgets/QAction", "QtWidgets/QAbstractItemView",
     "QtWidgets/QDockWidget", "QtWidgets/QFileDialog", "QtWidgets/QLabel",
     "QtWidgets/QMenu", "QtWidgets/QMenuBar", "QtWidgets/QMainWindow",
     "QtWidgets/QStyleFactory", "QtWidgets/QToolBar",
     "QtWidgets/QTreeWidget", "QtWidgets/QTreeWidgetItem",
     "QtWidgets/QWidget", "QIODevice", "QFile", "QResizeEvent",
     "QWheelEvent", "QKeyEvent", "QMouseEvent", "QPoint",
     "QtOpenGL/QGLWidget", "QtOpenGL/QGLFormat"}

AbcOpenGLHeaders == {"AbcOpenGL/GLCamera.h", "AbcOpenGL/SceneWrapper.h"}

----------------------------------------------------------------------------
(* The preprocessor.                                                       *)

Defined(m) == m \in DOMAIN macros

\* The macro table with m bound to v (a #define or a -D).
Bind(tbl, m, v) ==
    [n \in DOMAIN tbl \cup {m} |-> IF n = m THEN v ELSE tbl[n]]

\* The macro table without m (an #undef).
Unbind(tbl, m) == [n \in DOMAIN tbl \ {m} |-> tbl[n]]

\* Lines are being processed, not skipped: no open group is failed.
Active == condStack = <<>> \/ condStack[Len(condStack)].active

\* Line 1 of All.h carrying a declaration instead of being blank.
Line_WithDeclaration ==
    IF pc = 1 THEN Text("struct AbcViewState;") ELSE AllH[pc]

\* Lines 30 and 34 exchanged: GL/glew.h after the first Qt header.
Line_GlewAfterQt ==
    AllH[IF pc = 30 THEN 34 ELSE IF pc = 34 THEN 30 ELSE pc]

\* Lines 5 and 7 exchanged: ABCVIEW_VERSION_NS defined after <iostream>.
Line_VersionAfterStd ==
    AllH[IF pc = 5 THEN 7 ELSE IF pc = 7 THEN 5 ELSE pc]

\* The line the preprocessor is about to read.
Line == AllH[pc]

\* Past the last line the preprocessor returns to the including file.
Advance == pc' = IF pc = Len(AllH) THEN 0 ELSE pc + 1

AtLine(k) == pc \in 1..Len(AllH) /\ Line.kind = k

\* Completed passes over All.h.
Completed == IF pc = 0 THEN nIncl ELSE nIncl - 1

Init ==
    /\ macros \in {<<>>, Bind(<<>>, PlatformDarwin, "1")}
    /\ includes = <<>>
    /\ defines = <<>>
    /\ text = <<>>
    /\ condStack = <<>>
    /\ pc = 0
    /\ nIncl = 0

\* The translation unit (or the build's -D) defines PLATFORM_DARWIN.
DefineDarwin ==
    /\ pc = 0
    /\ ~Defined(PlatformDarwin)
    /\ macros' = Bind(macros, PlatformDarwin, "1")
    /\ UNCHANGED <<includes, defines, text, condStack, pc, nIncl>>

\* The translation unit undefines PLATFORM_DARWIN.
UndefDarwin ==
    /\ pc = 0
    /\ Defined(PlatformDarwin)
    /\ macros' = Unbind(macros, PlatformDarwin)
    /\ UNCHANGED <<includes, defines, text, condStack, pc, nIncl>>

\* The translation unit reaches an #include of All.h.
IncludeAllH ==
    /\ pc = 0
    /\ nIncl < MaxInclusions
    /\ pc' = 1
    /\ nIncl' = nIncl + 1
    /\ UNCHANGED <<macros, includes, defines, text, condStack>>

\* #ifndef that opens its group whatever the macro table says.
StepIfndef_NoGuard ==
    /\ AtLine("ifndef")
    /\ condStack' = Append(condStack,
                           [active |-> Active, taken |-> Active,
                            parent |-> Active])
    /\ Advance
    /\ UNCHANGED <<macros, includes, defines, text, nIncl>>

\* #ifndef M: the group is processed when M is not defined.
StepIfndef ==
    /\ AtLine("ifndef")
    /\ LET on == Active /\ ~Defined(Line.arg)
       IN  condStack' = Append(condStack,
                               [active |-> on, taken |-> on,
                                parent |-> Active])
    /\ Advance
    /\ UNCHANGED <<macros, includes, defines, text, nIncl>>

\* #ifdef M: the group is processed when M is defined.
StepIfdef ==
    /\ AtLine("ifdef")
    /\ LET on == Active /\ Defined(Line.arg)
       IN  condStack' = Append(condStack,
                               [active |-> on, taken |-> on,
                                parent |-> Active])
    /\ Advance
    /\ UNCHANGED <<macros, includes, defines, text, nIncl>>

\* #else that opens its group even when the #ifdef group was processed.
StepElse_AlwaysOn ==
    /\ AtLine("else")
    /\ LET n   == Len(condStack)
           top == condStack[n]
       IN  condStack' = [condStack EXCEPT
                           ![n] = [active |-> top.parent, taken |-> TRUE,
                                   parent |-> top.parent]]
    /\ Advance
    /\ UNCHANGED <<macros, includes, defines, text, nIncl>>

\* #else: the group is processed when no earlier group of the #if was.
StepElse ==
    /\ AtLine("else")
    /\ LET n   == Len(condStack)
           top == condStack[n]
       IN  condStack' = [condStack EXCEPT
                           ![n] = [active |-> top.parent /\ ~top.taken,
                                   taken  |-> TRUE,
                                   parent |-> top.parent]]
    /\ Advance
    /\ UNCHANGED <<macros, includes, defines, text, nIncl>>

\* #endif that leaves its group open.
StepEndif_NoPop ==
    /\ AtLine("endif")
    /\ condStack' = IF pc = Len(AllH) THEN <<>> ELSE condStack
    /\ Advance
    /\ UNCHANGED <<macros, includes, defines, text, nIncl>>

\* #endif: closes the innermost group.
StepEndif ==
    /\ AtLine("endif")
    /\ condStack' = SubSeq(condStack, 1, Len(condStack) - 1)
    /\ Advance
    /\ UNCHANGED <<macros, includes, defines, text, nIncl>>

\* #define M v, unless the line is in a skipped group.
StepDefine ==
    /\ AtLine("define")
    /\ IF Active
         THEN /\ macros' = Bind(macros, Line.arg, Line.val)
              /\ defines' = Append(defines, <<Line.arg, Line.val>>)
         ELSE UNCHANGED <<macros, defines>>
    /\ Advance
    /\ UNCHANGED <<includes, text, condStack, nIncl>>

\* #include <h>, unless the line is in a skipped group.
StepInclude ==
    /\ AtLine("include")
    /\ includes' = IF Active THEN Append(includes, Line.arg) ELSE includes
    /\ Advance
    /\ UNCHANGED <<macros, defines, text, condStack, nIncl>>

\* A blank line, a comment, or a line of program text: only program text
\* outside a skipped group reaches the compiler.
StepOther ==
    /\ pc \in 1..Len(AllH)
    /\ Line.kind \in {"blank", "comment", "text"}
    /\ text' = IF Line.kind = "text" /\ Active
                 THEN Append(text, Line.arg) ELSE text
    /\ Advance
    /\ UNCHANGED <<macros, includes, defines, condStack, nIncl>>

Next ==
    \/ DefineDarwin
    \/ UndefDarwin
    \/ IncludeAllH
    \/ StepIfndef
    \/ StepIfdef
    \/ StepElse
    \/ StepEndif
    \/ StepDefine
    \/ StepInclude
    \/ StepOther

Spec == Init /\ [][Next]_vars

----------------------------------------------------------------------------
(* Properties of the header.                                               *)

\* The headers entered so far, and those entered before the i-th.
Included  == {includes[i] : i \in 1..Len(includes)}
Before(i) == {includes[j] : j \in 1..(i - 1)}

HasNative == NativeGLHeaders \subseteq Included
HasGlew   == GlewHeaders \subseteq Included

\* Line 32 closes the platform conditional: past it, during the first pass,
\* the OpenGL family has been chosen and the macro table is still the
\* configuration the pass started with.
PastGLBlock == Completed = 0 /\ pc > GLBlockEnd

\* C1: every configuration selects exactly one OpenGL header family: the
\* five native headers and not GL/glew.h when PLATFORM_DARWIN is defined,
\* GL/glew.h and none of the native headers when it is not; never both,
\* and, once the conditional is passed, never neither.
C1_ExactlyOneGLFamily ==
    /\ ~(Included \cap NativeGLHeaders # {} /\ Included \cap GlewHeaders # {})
    /\ PastGLBlock /\ Defined(PlatformDarwin)
         => HasNative /\ Included \cap GlewHeaders = {}
    /\ PastGLBlock /\ ~Defined(PlatformDarwin)
         => HasGlew /\ Included \cap NativeGLHeaders = {}
    /\ Completed >= 1
         => \/ HasNative /\ Included \cap GlewHeaders = {}
            \/ HasGlew /\ Included \cap NativeGLHeaders = {}

C1_Witness ==
    /\ PastGLBlock
    /\ Defined(PlatformDarwin)
    /\ HasNative
    /\ "GL/glew.h" \notin Included

\* C2 as claimed: preprocessing All.h has no effect but entering headers;
\* it defines nothing and passes no text of its own to the compiler.
C2_OnlyIncludes_Original ==
    /\ defines = <<>>
    /\ text = <<>>
    /\ DOMAIN macros \subseteq {PlatformDarwin}

\* C2 as amended: apart from entering headers, All.h only defines the two
\* macros _AbcView_All_h_ and ABCVIEW_VERSION_NS; it passes no program text
\* (no declaration, type or object) of its own to the compiler, in either
\* configuration and on a first or a repeated inclusion.
C2_IncludesAndTwoMacros ==
    /\ text = <<>>
    /\ \A i \in 1..Len(defines) : defines[i][1] \in {Guard, VersionNS}
    /\ DOMAIN macros \subseteq {Guard, VersionNS, PlatformDarwin}

C2_Witness ==
    /\ nIncl = 2
    /\ pc = 0
    /\ Len(defines) = 2
    /\ text = <<>>
    /\ Len(includes) > 0

IsCommonInclude(l) ==
    l.kind = "include" /\ l.arg \notin NativeGLHeaders \cup GlewHeaders
NotGL(h) == h \notin NativeGLHeaders \cup GlewHeaders

RECURSIVE Args(_)
Args(ls) == IF ls = <<>> THEN <<>> ELSE <<Head(ls).arg>> \o Args(Tail(ls))

\* The standard, Imath, Qt and AbcOpenGL includes of All.h, in file order.
CommonIncludes == Args(SelectSeq(AllH, IsCommonInclude))

IsPrefix(s, t) == Len(s) <= Len(t) /\ s = SubSeq(t, 1, Len(s))

\* C3: the platform switch touches only the OpenGL headers: in either
\* configuration the headers entered other than the OpenGL ones are the
\* standard, Imath, Qt and AbcOpenGL includes of the file, each once and
\* in file order.
C3_CommonIncludesFixed ==
    /\ IsPrefix(SelectSeq(includes, NotGL), CommonIncludes)
    /\ Completed >= 1 => SelectSeq(includes, NotGL) = CommonIncludes

C3_Witness ==
    /\ Completed >= 1
    /\ HasNative
    /\ SelectSeq(includes, NotGL) = CommonIncludes
    /\ Len(CommonIncludes) = 35

\* C5: the selected OpenGL family is entered, whole, before any Qt or
\* AbcOpenGL header; and nothing entered before GL/glew.h is a header that
\* may itself bring in gl.h (a native OpenGL, Qt or AbcOpenGL header).
C5_GLBeforeUsers ==
    /\ \A i \in 1..Len(includes) :
         includes[i] \in QtHeaders \cup AbcOpenGLHeaders
           => \/ NativeGLHeaders \subseteq Before(i)
              \/ GlewHeaders \subseteq Before(i)
    /\ \A i \in 1..Len(includes) :
         includes[i] \in GlewHeaders
           => Before(i) \subseteq StdHeaders \cup ImathHeaders

C5_Witness ==
    /\ Completed >= 1
    /\ HasGlew
    /\ "QtOpenGL/QGLWidget" \in Included
    /\ "AbcOpenGL/SceneWrapper.h" \in Included

\* C6: once All.h has been included, its guard macro is defined, and a
\* later inclusion enters no header, defines no macro and passes no text,
\* whatever PLATFORM_DARWIN is by then.
C6_GuardIdempotent ==
    /\ [](Completed >= 1 => Defined(Guard))
    /\ [][Completed >= 1 /\ pc # 0
            => /\ includes' = includes
               /\ defines' = defines
               /\ text' = text
               /\ macros' = macros]_vars

\* A second pass has ended, after a first one without PLATFORM_DARWIN and
\* with PLATFORM_DARWIN defined since.
C6_Witness ==
    /\ nIncl = 2
    /\ pc = 0
    /\ Defined(PlatformDarwin)
    /\ HasGlew
    /\ Len(includes) = Len(CommonIncludes) + 1

DefinesOf(m) == {i \in 1..Len(defines) : defines[i][1] = m}

\* C7: ABCVIEW_VERSION_NS is v1 as soon as any header has been entered and
\* ever after, in both configurations, and All.h defines it only once.
C7_VersionNS ==
    /\ (includes # <<>> \/ Completed >= 1)
         => Defined(VersionNS) /\ macros[VersionNS] = "v1"
    /\ Cardinality(DefinesOf(VersionNS)) <= 1
    /\ \A i \in DefinesOf(VersionNS) : defines[i][2] = "v1"

C7_Witness ==
    /\ nIncl = 2
    /\ pc > GLBlockEnd
    /\ Defined(VersionNS)
    /\ macros[VersionNS] = "v1"
    /\ Cardinality(DefinesOf(VersionNS)) = 1

====
